---- MODULE Spec2Model ----
(***************************************************************************)
(* Top-to-bottom execution of the two tutorial notebooks                   *)
(*   land   : floods-precipitation-anomaly (ERA5 land, Storm Daniel)        *)
(*   single : tutorial-era5-reanalysis-era5-single-levels (Germany, Berlin) *)
(* and the catalog index.json.  Every notebook statement is one step of a   *)
(* program counter; chained calls are split into their successive calls,    *)
(* the intermediate result living in the temporary name "_".               *)
(***************************************************************************)
EXTENDS Integers, Sequences, FiniteSets, TLC

VARIABLES nb, storeEnd, run, status, pc, env, month, iter, label,
          bound, firstBound, calls, plots, transfers, written, error, catalog

vars == <<nb, storeEnd, run, status, pc, env, month, iter, label,
          bound, firstBound, calls, plots, transfers, written, error, catalog>>

\* number of fresh-kernel runs explored
MaxRuns == 2

\* last month of 2023 present on the remote store's valid_time axis
StoreEndMonths == {10, 11, 12}

(***************************************************************************)
(* Values held by notebook names.                                          *)
(*   kind  : unbound, module, pyobj, dataset, array, coord, mask, groupby,  *)
(*           resample                                                       *)
(*   lazy  : backed by a task graph, bulk data not in memory                *)
(*   dtype : element type                                                   *)
(*   units : attrs["units"] ("" when the attribute is absent)               *)
(*   sels  : coordinate selections applied since the dataset was opened     *)
(*   aggs  : aggregates over valid_time in the value's provenance           *)
(*   bins  : calendar months of 2023 held by a monthly resampled series     *)
(*   box   : the latitude / longitude bounds or point of the selection       *)
(*   tsel  : the valid_time selections applied, in order                     *)
(*   ref   : the valid_time selections of the subtrahend of a difference     *)
(*   num, den, shift : the value is data * num / den (+ shift)               *)
(***************************************************************************)
\* variant: the reference years run to 2022
YEARS_To2022 ==
  << 1991, 1992, 1993,
     1994, 1995, 1996,
     1997, 1998, 1999,
     2000, 2001, 2002,
     2003, 2004, 2005,
     2006, 2007, 2008,
     2009, 2010, 2011,
     2012, 2013, 2014,
     2015, 2016, 2017,
     2018, 2019, 2020,
     2021, 2022 >>

\* YEARS = ["1991", ..., "2020"], as numbers
YEARS ==
  << 1991, 1992, 1993,
     1994, 1995, 1996,
     1997, 1998, 1999,
     2000, 2001, 2002,
     2003, 2004, 2005,
     2006, 2007, 2008,
     2009, 2010, 2011,
     2012, 2013, 2014,
     2015, 2016, 2017,
     2018, 2019, 2020 >>

\* DAYS = ["01", ..., "30"], as numbers
DAYS ==
  << 1, 2, 3,
     4, 5, 6,
     7, 8, 9,
     10, 11, 12,
     13, 14, 15,
     16, 17, 18,
     19, 20, 21,
     22, 23, 24,
     25, 26, 27,
     28, 29, 30 >>

Unbound ==
  [kind |-> "unbound", lazy |-> FALSE, dtype |-> "", units |-> "",
   sels |-> {}, aggs |-> {}, bins |-> {},
   box |-> "", tsel |-> << >>, ref |-> << >>, num |-> 1, den |-> 1,
   shift |-> ""]

PyObj == [Unbound EXCEPT !.kind = "pyobj"]

Module == [Unbound EXCEPT !.kind = "module"]

\* variant: the store is opened and loaded eagerly
OpenDatasetLoaded ==
  [Unbound EXCEPT !.kind = "dataset", !.dtype = "native", !.units = "native"]

\* xr.open_dataset(url, chunks={}, engine="zarr"): metadata only, dask-backed
OpenDatasetVal ==
  [Unbound EXCEPT !.kind = "dataset", !.lazy = TRUE, !.dtype = "native",
                  !.units = "native"]

\* ds.tp / ds.t2m
GetVarVal(v) == [v EXCEPT !.kind = "array"]

\* .astype("float32")
AsTypeVal(v, t) == [v EXCEPT !.dtype = t]

\* array <op> python scalar: attrs are dropped, laziness is kept
ArithVal(v, a) ==
  [v EXCEPT !.units = "",
            !.num = IF a = "*1000" THEN @ * 1000 ELSE @,
            !.den = IF a = "/len(YEARS)" THEN @ * Len(YEARS) ELSE @,
            !.shift = IF a = "-273.15" THEN a ELSE @]

\* array - array
Arith2Val(a, b) ==
  [kind |-> "array", lazy |-> a.lazy \/ b.lazy, dtype |-> a.dtype, units |-> "",
   sels |-> a.sels \cup b.sels, aggs |-> a.aggs \cup b.aggs,
   bins |-> a.bins \cap b.bins,
   box |-> IF a.box = b.box THEN a.box ELSE "mixed",
   tsel |-> a.tsel, ref |-> b.tsel, num |-> a.num, den |-> a.den,
   shift |-> ""]

\* x.attrs["units"] = u
SetAttrVal(v, u) == [v EXCEPT !.units = u]

\* .sel(latitude=slice, longitude=slice) / .sel(..., method="nearest") /
\* .sel(valid_time=label | list | slice)
SelVal(v, k) == [v EXCEPT !.sels = @ \cup {k}]

\* x["valid_time.month"], x.month : an index coordinate, held in memory
CoordVal(v) == [v EXCEPT !.kind = "coord", !.lazy = FALSE]

\* coord == m
CompareVal(c, m) ==
  [c EXCEPT !.kind = "mask", !.bins = @ \cap {m},
            !.tsel = Append(@, [k |-> "month", a |-> m, b |-> 0, name |-> ""])]

\* .sel(valid_time=<boolean mask>)
SelMaskVal(v, m) ==
  [v EXCEPT !.sels = @ \cup {"month"}, !.bins = m.bins, !.tsel = m.tsel]

\* .compute()
ComputeVal(v) == [v EXCEPT !.lazy = FALSE]

\* .mean(dim="valid_time") / .sum("valid_time")
ReduceVal(v, f) == [v EXCEPT !.aggs = @ \cup {f}, !.units = ""]

\* .groupby("valid_time.month") / .groupby("valid_time.time")
GroupByVal(v) == [v EXCEPT !.kind = "groupby"]

\* groupby(...)[datetime.time()] : the members of one group, not aggregated
GroupSelectVal(g) == [g EXCEPT !.kind = "array", !.sels = @ \cup {"timeofday"}]

\* groupby(...).mean(dim="valid_time") / .std(dim="valid_time")
GroupReduceVal(g, f) ==
  [g EXCEPT !.kind = "array", !.aggs = @ \cup {f}, !.units = ""]

\* .resample(valid_time="1M")
ResampleVal(v) == [v EXCEPT !.kind = "resample"]

\* resample(...).mean(dim="valid_time") over the 2023 selection: one value
\* per month present on the store
ResampleReduceVal(r, f, end) ==
  [r EXCEPT !.kind = "array", !.aggs = @ \cup {f}, !.units = "",
            !.bins = 1..end]

(***************************************************************************)
(* Notebook statements.                                                    *)
(***************************************************************************)
\* one call or assignment: src (and src2) are read, dst is bound
S(cell, line, op, src, src2, dst, arg) ==
  [cell |-> cell, line |-> line, op |-> op, src |-> src, src2 |-> src2,
   dst |-> dst, arg |-> arg, pos |-> <<>>, kwarr |-> <<>>, kw |-> {}]

\* one plotting call: pos are the positional arguments, kwarr the arrays
\* passed by keyword, kw the keyword names
P(cell, line, op, fn, pos, kwarr, kw) ==
  [cell |-> cell, line |-> line, op |-> op, src |-> "", src2 |-> "",
   dst |-> "", arg |-> fn, pos |-> pos, kwarr |-> kwarr, kw |-> kw]

\* a positional argument that is one name
A(name) == [list |-> FALSE, names |-> <<name>>]

\* a positional argument that is a list literal of names
L(names) == [list |-> TRUE, names |-> names]

(* ---------------- land notebook (src/unnamed/part_000) ---------------- *)
Cell_7c2365fb ==
  << S("7c2365fb", 54, "import", "", "", "xr", "xarray"),
     S("7c2365fb", 56, "open_dataset", "", "", "_", "s3"),
     S("7c2365fb", 60, "astype", "_", "", "ds", "float32"),
     S("7c2365fb", 61, "show", "ds", "", "", "") >>

Cell_515a2608 ==
  << S("515a2608", 104, "getvar", "ds", "", "tp", "tp"),
     S("515a2608", 105, "sel_box", "tp", "", "tp_greece", "41,34,19,28"),
     S("515a2608", 106, "show", "tp_greece", "", "", "") >>

Cell_451522d5 ==
  << S("451522d5", 124, "sel_time", "tp_greece", "", "tp_greece_storm_daniel",
       "[2023-09-06,2023-09-07]"),
     S("451522d5", 125, "show", "tp_greece_storm_daniel", "", "", "") >>

Cell_d3dd40a4 ==
  << S("d3dd40a4", 147, "compute", "tp_greece_storm_daniel", "",
       "tp_greece_storm_daniel", "") >>

Cell_4e0a1540 ==
  << S("4e0a1540", 175, "reduce", "tp_greece_storm_daniel", "",
       "tp_greece_storm_daniel_sum", "sum"),
     S("4e0a1540", 176, "show", "tp_greece_storm_daniel_sum", "", "", ""),
     S("4e0a1540", 177, "arith", "tp_greece_storm_daniel_sum", "",
       "tp_greece_storm_daniel_sum", "*1000"),
     S("4e0a1540", 178, "setattr", "tp_greece_storm_daniel_sum", "",
       "tp_greece_storm_daniel_sum", "mm"),
     S("4e0a1540", 179, "show", "tp_greece_storm_daniel_sum", "", "", "") >>

Cell_9ebbf756 ==
  << S("9ebbf756", 198, "import", "", "", "display", "display"),
     P("9ebbf756", 199, "display", "map",
       <<A("tp_greece_storm_daniel_sum")>>, <<>>, {"vmax", "title"}) >>

Cell_cce4fb6d ==
  << S("cce4fb6d", 221, "const", "", "", "YEARS", "list"),
     S("cce4fb6d", 233, "const", "", "", "DAYS", "list"),
     S("cce4fb6d", 246, "const", "", "", "MONTH_REFERENCE_TIME", "comprehension"),
     S("cce4fb6d", 248, "sel_time", "tp_greece", "",
       "tp_greece_september_1991_2020", "MONTH_REFERENCE_TIME"),
     S("cce4fb6d", 249, "show", "tp_greece_september_1991_2020", "", "", "") >>

\* variant: the materialization is issued a second time
Cell_a26f17ac_Twice ==
  << S("a26f17ac", 269, "compute", "tp_greece_september_1991_2020", "",
       "tp_greece_september_1991_2020", ""),
     S("a26f17ac", 269, "compute", "tp_greece_september_1991_2020", "",
       "tp_greece_september_1991_2020", "") >>

Cell_a26f17ac ==
  << S("a26f17ac", 269, "compute", "tp_greece_september_1991_2020", "",
       "tp_greece_september_1991_2020", "") >>

Cell_3e46d01e ==
  << S("3e46d01e", 287, "reduce", "tp_greece_september_1991_2020", "", "_", "sum"),
     S("3e46d01e", 287, "arith", "_", "",
       "tp_greece_september_1991_2020_average", "/len(YEARS)"),
     S("3e46d01e", 288, "show", "tp_greece_september_1991_2020_average", "", "", ""),
     S("3e46d01e", 289, "arith", "tp_greece_september_1991_2020_average", "",
       "tp_greece_september_1991_2020_average", "*1000"),
     S("3e46d01e", 290, "setattr", "tp_greece_september_1991_2020_average", "",
       "tp_greece_september_1991_2020_average", "mm") >>

\* variant: the selected, not yet summed, storm series is drawn
Cell_52bd5e21_Unreduced ==
  << P("52bd5e21", 310, "display", "maps",
       <<L(<<"tp_greece_storm_daniel",
             "tp_greece_september_1991_2020_average">>)>>,
       <<>>, {"vmax", "axs_set"}) >>

Cell_52bd5e21 ==
  << P("52bd5e21", 310, "display", "maps",
       <<L(<<"tp_greece_storm_daniel_sum",
             "tp_greece_september_1991_2020_average">>)>>,
       <<>>, {"vmax", "axs_set"}) >>

\* variant: the whole variable is bound without the nearest-point selection
Cell_cff9826c_NoSel ==
  << S("cff9826c", 345, "getvar", "ds", "", "tp_hinterland_location", "tp"),
     S("cff9826c", 346, "show", "tp_hinterland_location", "", "", "") >>

Cell_cff9826c ==
  << S("cff9826c", 345, "getvar", "ds", "", "_", "tp"),
     S("cff9826c", 345, "sel_nearest", "_", "", "tp_hinterland_location",
       "39.25,21.9"),
     S("cff9826c", 346, "show", "tp_hinterland_location", "", "", "") >>

Cell_c9190f9c ==
  << S("c9190f9c", 366, "compute", "tp_hinterland_location", "",
       "tp_hinterland_location", "") >>

Cell_3e0a2d0f ==
  << S("3e0a2d0f", 384, "import", "", "", "datetime", "datetime"),
     S("3e0a2d0f", 385, "sel_time", "tp_hinterland_location", "", "_", "2023"),
     S("3e0a2d0f", 385, "groupby", "_", "", "_", "valid_time.time"),
     S("3e0a2d0f", 385, "groupselect", "_", "",
       "tp_hinterland_location_daily_total_2023", "00:00"),
     S("3e0a2d0f", 386, "sel_time", "tp_hinterland_location", "", "_",
       "slice(1991,2020)"),
     S("3e0a2d0f", 386, "groupby", "_", "", "_", "valid_time.time"),
     S("3e0a2d0f", 386, "groupselect", "_", "",
       "tp_hinterland_location_daily_total_1991_2022", "00:00") >>

\* variant: the two series are passed as one list
Cell_f64f2a30_List ==
  << P("f64f2a30", 404, "display", "compare",
       <<L(<<"tp_hinterland_location_daily_total_2023",
             "tp_hinterland_location_daily_total_1991_2022">>)>>,
       <<>>, {"time", "ylim"}) >>

Cell_f64f2a30 ==
  << P("f64f2a30", 404, "display", "compare",
       <<A("tp_hinterland_location_daily_total_2023"),
         A("tp_hinterland_location_daily_total_1991_2022")>>,
       <<>>, {"time", "ylim"}) >>

LandProgram ==
  Cell_7c2365fb \o Cell_515a2608 \o Cell_451522d5 \o Cell_d3dd40a4 \o
  Cell_4e0a1540 \o Cell_9ebbf756 \o Cell_cce4fb6d \o Cell_a26f17ac \o
  Cell_3e46d01e \o Cell_52bd5e21 \o Cell_cff9826c \o Cell_c9190f9c \o
  Cell_3e0a2d0f \o Cell_f64f2a30

(* ------ single notebook (src/use-cases/tutorial-era5-...-levels.ipynb) ------ *)
Cell_1813f28e ==
  << S("1813f28e", 70, "import", "", "", "xr", "xarray"),
     S("1813f28e", 78, "open_dataset", "", "", "ds", "https"),
     S("1813f28e", 84, "show", "ds", "", "", "") >>

Cell_afd7472f ==
  << S("afd7472f", 129, "getvar", "ds", "", "_", "t2m"),
     S("afd7472f", 129, "astype", "_", "", "_", "float32"),
     S("afd7472f", 129, "arith", "_", "", "t2m", "-273.15"),
     S("afd7472f", 130, "setattr", "t2m", "", "t2m", "C"),
     S("afd7472f", 131, "sel_box", "t2m", "", "t2m_germany_area", "55,47,5,16"),
     S("afd7472f", 132, "show", "t2m_germany_area", "", "", "") >>

Cell_d5c84107 ==
  << S("d5c84107", 160, "sel_time", "t2m_germany_area", "",
       "t2m_germany_area_october_2023", "2023-10"),
     S("d5c84107", 161, "show", "t2m_germany_area_october_2023", "", "", "") >>

Cell_d825f6c6 ==
  << S("d825f6c6", 183, "compute", "t2m_germany_area_october_2023", "",
       "t2m_germany_area_october_2023", "") >>

Cell_dad2b7ff ==
  << S("dad2b7ff", 219, "reduce", "t2m_germany_area_october_2023", "",
       "t2m_germany_area_october_2023_monthly_mean", "mean"),
     S("dad2b7ff", 220, "show", "t2m_germany_area_october_2023_monthly_mean",
       "", "", "") >>

Cell_e2f79322 ==
  << S("e2f79322", 239, "import", "", "", "display", "display"),
     S("e2f79322", 240, "import", "", "", "plt", "matplotlib.pyplot") >>

Cell_92b515ff ==
  << P("92b515ff", 250, "display", "map",
       <<A("t2m_germany_area_october_2023_monthly_mean")>>, <<>>,
       {"vmax", "cmap", "title"}) >>

\* variant: the Octobers of every year are kept, the slice is left out
Cell_90c55dba_AllYears ==
  << S("90c55dba", 274, "coord", "t2m_germany_area", "", "_", "valid_time.month"),
     S("90c55dba", 274, "compare", "_", "", "_", "10"),
     S("90c55dba", 274, "sel_mask", "t2m_germany_area", "_",
       "t2m_germany_area_octobers_1981_2010", ""),
     S("90c55dba", 275, "show", "t2m_germany_area_octobers_1981_2010", "", "", "") >>

Cell_90c55dba ==
  << S("90c55dba", 274, "coord", "t2m_germany_area", "", "_", "valid_time.month"),
     S("90c55dba", 274, "compare", "_", "", "_", "10"),
     S("90c55dba", 274, "sel_mask", "t2m_germany_area", "_", "_", ""),
     S("90c55dba", 274, "sel_time", "_", "",
       "t2m_germany_area_octobers_1981_2010", "slice(1981,2010)"),
     S("90c55dba", 275, "show", "t2m_germany_area_octobers_1981_2010", "", "", "") >>

Cell_cb3dd05a ==
  << S("cb3dd05a", 295, "compute", "t2m_germany_area_octobers_1981_2010", "",
       "t2m_germany_area_octobers_1981_2010", "") >>

Cell_260e9ed8 ==
  << S("260e9ed8", 313, "reduce", "t2m_germany_area_octobers_1981_2010", "",
       "t2m_germany_area_octobers_1981_2010_mean", "mean") >>

Cell_673ddbe7 ==
  << S("673ddbe7", 331, "arith2", "t2m_germany_area_october_2023_monthly_mean",
       "t2m_germany_area_octobers_1981_2010_mean", "anomaly", "-"),
     S("673ddbe7", 332, "show", "anomaly", "", "", "") >>

Cell_c798f9af ==
  << P("c798f9af", 350, "display", "map", <<A("anomaly")>>, <<>>,
       {"vmax", "cmap", "title"}) >>

Cell_d803a1ce ==
  << S("d803a1ce", 385, "sel_nearest", "t2m", "", "t2m_Berlin", "52.5,13.4"),
     S("d803a1ce", 386, "show", "t2m_Berlin", "", "", "") >>

\* variant: the cell that materializes t2m_Berlin is left out
Cell_dfe4d12a_Skipped == << >>

Cell_dfe4d12a ==
  << S("dfe4d12a", 406, "compute", "t2m_Berlin", "", "t2m_Berlin", "") >>

Cell_e6789d3c ==
  << S("e6789d3c", 424, "sel_time", "t2m_Berlin", "", "_", "slice(1981,2010)"),
     S("e6789d3c", 424, "groupby", "_", "", "_", "valid_time.month"),
     S("e6789d3c", 424, "groupreduce", "_", "", "t2m_Berlin_climatology_mean",
       "mean"),
     S("e6789d3c", 425, "sel_time", "t2m_Berlin", "", "_", "slice(1981,2010)"),
     S("e6789d3c", 425, "groupby", "_", "", "_", "valid_time.month"),
     S("e6789d3c", 425, "groupreduce", "_", "", "t2m_Berlin_climatology_std",
       "std") >>

Cell_861f10cd ==
  << S("861f10cd", 443, "sel_time", "t2m_Berlin", "", "_", "2023"),
     S("861f10cd", 443, "resample", "_", "", "_", "1M"),
     S("861f10cd", 443, "resamplereduce", "_", "",
       "t2m_Berlin_2023_monthly_means", "mean"),
     S("861f10cd", 444, "show", "t2m_Berlin_2023_monthly_means", "", "", "") >>

\* variant: the loop runs over the months found on the store
RangeStopFromData == storeEnd + 1

\* first and one-past-last value of range (1, 11)
RangeStart == 1
RangeStop == 11

Cell_6605298a ==
  << P("6605298a", 462, "plt", "figure", <<>>, <<>>, {"figsize"}),
     P("6605298a", 463, "plt", "plot",
       <<A("t2m_Berlin_climatology_mean")>>, <<>>, {"label", "color"}),
     S("6605298a", 465, "coord", "t2m_Berlin_climatology_mean", "", "_", "month"),
     P("6605298a", 464, "plt", "errorbar",
       <<A("_"), A("t2m_Berlin_climatology_mean")>>,
       <<"t2m_Berlin_climatology_std">>, {"yerr", "fmt", "label", "color"}),
     S("6605298a", 472, "range", "", "", "", ""),
     S("6605298a", 472, "for", "", "", "month", ""),
     S("6605298a", 473, "coord", "t2m_Berlin_2023_monthly_means", "", "_",
       "valid_time.month"),
     S("6605298a", 473, "compare", "_", "", "_", "month"),
     S("6605298a", 473, "sel_mask", "t2m_Berlin_2023_monthly_means", "_",
       "t2m_point", ""),
     S("6605298a", 474, "const", "", "", "label", "None"),
     S("6605298a", 475, "if", "", "", "", "month == 1"),
     S("6605298a", 476, "const", "", "", "label", "2023"),
     P("6605298a", 477, "plt", "scatter", <<A("month"), A("t2m_point")>>, <<>>,
       {"color", "label"}),
     S("6605298a", 477, "endfor", "", "", "", ""),
     P("6605298a", 478, "plt", "title", <<>>, <<>>, {}),
     S("6605298a", 479, "coord", "t2m_Berlin_climatology_mean", "", "_", "month"),
     P("6605298a", 479, "plt", "xticks", <<A("_")>>, <<>>, {}),
     P("6605298a", 480, "plt", "xlabel", <<>>, <<>>, {}),
     P("6605298a", 481, "plt", "ylabel", <<>>, <<>>, {}),
     P("6605298a", 482, "plt", "legend", <<>>, <<>>, {}),
     P("6605298a", 483, "plt", "grid", <<>>, <<>>, {"alpha"}),
     P("6605298a", 484, "plt", "show", <<>>, <<>>, {}) >>

\* the last code cell has no source line
Cell_68e82fd2 == << >>

SingleProgram ==
  Cell_1813f28e \o Cell_afd7472f \o Cell_d5c84107 \o Cell_d825f6c6 \o
  Cell_dad2b7ff \o Cell_e2f79322 \o Cell_92b515ff \o Cell_90c55dba \o
  Cell_cb3dd05a \o Cell_260e9ed8 \o Cell_673ddbe7 \o Cell_c798f9af \o
  Cell_d803a1ce \o Cell_dfe4d12a \o Cell_e6789d3c \o Cell_861f10cd \o
  Cell_6605298a \o Cell_68e82fd2

Program(n) == IF n = "land" THEN LandProgram ELSE SingleProgram

\* variant: the notebooks are committed after having been executed
CodeCellsExecuted(n) ==
  { [id |-> i, execution_count |-> "1", outputs |-> 1] :
    i \in IF n = "land" THEN {"7c2365fb"} ELSE {"1813f28e"} }

\* code cells as committed: id, execution_count and number of stored outputs
CodeCells(n) ==
  IF n = "land"
  THEN { [id |-> i, execution_count |-> "null", outputs |-> 0] :
         i \in {"7c2365fb", "515a2608", "451522d5", "d3dd40a4", "4e0a1540",
                "9ebbf756", "cce4fb6d", "a26f17ac", "3e46d01e", "52bd5e21",
                "cff9826c", "c9190f9c", "3e0a2d0f", "f64f2a30"} }
  ELSE { [id |-> i, execution_count |-> "null", outputs |-> 0] :
         i \in {"1813f28e", "afd7472f", "d5c84107", "d825f6c6", "dad2b7ff",
                "e2f79322", "92b515ff", "90c55dba", "cb3dd05a", "260e9ed8",
                "673ddbe7", "c798f9af", "d803a1ce", "dfe4d12a", "e6789d3c",
                "861f10cd", "6605298a", "68e82fd2"} }

\* names the statements bind; "_" holds intermediate results
Names ==
  ({ LandProgram[i].dst : i \in DOMAIN LandProgram } \cup
   { SingleProgram[i].dst : i \in DOMAIN SingleProgram }) \ {""}

IsTemp(name) == name = "_"

\* files and stores a call writes to: the notebooks call no writing API
\* (no to_zarr, to_netcdf, savefig or open)
Writes(op) == {}

\* variant: a catalog with a draft entry that lacks fields
entriesDraft ==
  << [ id |-> "eurostats_draft",
       title |-> "EUROSTAT draft",
       description |-> "",
       source |-> "./use-cases/eurostats_draft.ipynb" ] >>

(* ---------------- catalog (src/index.json) ---------------- *)
entries ==
  <<
    [ id |-> "floods-precipitation-anomaly",
      title |-> "How to work with ERA5 land: Greece 2023 floods due to storm Daniel",
      description |-> "This notebook will provide you guidance on how to access and use the reanalysis-era5-land-no-antartica-v0.zarr datset on Earth Data Hub. The first goal is to compute the total precipitation observed during the Storm Daniel event, from 6 to 7 September 2023, in Greece, and compare it with the average 1991-2020 precipitation in the same area. The second goal is to compare the 2023 cumulative precipitation on a specific location (Greece interland) with the cumulative precipitation of past years (1991-2022) for the same location.",
      source |-> "./use-cases/floods-precipitation-anomaly.ipynb",
      export |-> "./use-cases/floods-precipitation-anomaly.html",
      thumbnail_url |-> "./use-cases/floods-precipitation-anomaly.jpg",
      collection |-> "era5",
      dataset |-> "reanalysis-era5-land" ],
    [ id |-> "tutorial-era5-reanalysis-era5-single-levels",
      title |-> "How to work with ERA5 single levels: climatological analysis of temperature in Germany",
      description |-> "This notebook will provide you guidance on how to access and use the reanalysis-era5-single-levels.zarr datset on Earth Data Hub. The first goal is to compute the 2 metre temperature anomaly for the month of October 2023, in the Germany area, against the 1981-2010 reference period. The second goal is to compute the 2 metre temperature climatology (monthly means and standard deviations) in Berlin for the same reference period and compare it with the monthly averages of 2023.",
      source |-> "./use-cases/tutorial-era5-reanalysis-era5-single-levels.ipynb",
      export |-> "./use-cases/tutorial-era5-reanalysis-era5-single-levels.html",
      thumbnail_url |-> "./use-cases/tutorial-era5-reanalysis-era5-single-levels.jpg",
      collection |-> "era5",
      dataset |-> "reanalysis-era5-single-levels" ],
    [ id |-> "tutorial-cmems-reanalysis-cmems_mod_glo_phy_my_0.083_P1D-m",
      title |-> "El Nino events exploration",
      description |-> "An exploration of El Nino events using CMEMS data",
      source |-> "./use-cases/tutorial-cmems-reanalysis-cmems_mod_glo_phy_my_0.083_P1D-m.ipynb",
      export |-> "./use-cases/tutorial-cmems-reanalysis-cmems_mod_glo_phy_my_0.083_P1D-m.html",
      thumbnail_url |-> "./use-cases/tutorial-cmems-reanalysis-cmems_mod_glo_phy_my_0.083_P1D-m.jpg",
      collection |-> "cmems-reanalysis",
      dataset |-> "cmems_mod_glo_phy_my_0.083_P1D-m" ],
    [ id |-> "tutorial-ecmwf-forecasts-opendata-oper",
      title |-> "Surface temperature forecasts",
      description |-> "An exploration of surface temperature high-resolution forecasts",
      source |-> "./use-cases/tutorial-ecmwf-forecasts-opendata-oper.ipynb",
      export |-> "./use-cases/tutorial-ecmwf-forecasts-opendata-oper.html",
      thumbnail_url |-> "./use-cases/tutorial-ecmwf-forecasts-opendata-oper.jpg",
      collection |-> "ecmwf-forecasts",
      dataset |-> "opendata-oper" ],
    [ id |-> "tutorial-era5-ecv-for-climate-change",
      title |-> "Surface temperature data exploration",
      description |-> "An exploration of surface temperature variability using ERA5-derived data",
      source |-> "./use-cases/tutorial-era5-ecv-for-climate-change.ipynb",
      export |-> "./use-cases/tutorial-era5-ecv-for-climate-change.html",
      thumbnail_url |-> "./use-cases/tutorial-era5-ecv-for-climate-change.jpg",
      collection |-> "era5",
      dataset |-> "ecv-for-climate-change" ],
    [ id |-> "eurostats_final-energy-consumption",
      title |-> "EUROSTAT final energy consumption",
      description |-> "EUROSTAT Final Consumption of Energy data over Europe.",
      source |-> "./use-cases/eurostats_final-energy-consumption.ipynb",
      export |-> "./use-cases/eurostats_final-energy-consumption.html",
      thumbnail_url |-> "https://apps.mundialis.de/bopen_hedp/thumbnails/sdg_07_11-20000101-20210101.png",
      collection |-> "eurostat",
      dataset |-> "geoprocessed-eurostat-final-energy-consumption_sdg_07_11" ],
    [ id |-> "eurostats_CDD-and-HDD-data",
      title |-> "EUROSTAT CDD & HDD",
      description |-> "Eurostat CDD & HDD data over Europe.",
      source |-> "./use-cases/eurostats_CDD-and-HDD-data.ipynb",
      export |-> "./use-cases/eurostats_CDD-and-HDD-data.html",
      thumbnail_url |-> "https://apps.mundialis.de/bopen_hedp/thumbnails/nrg_chddr2_a-19790101-20220101.png",
      collection |-> "eurostat",
      dataset |-> "geoprocessed-eurostat-final-energy-consumption_sdg_07_11" ],
    [ id |-> "eurostats_population",
      title |-> "EUROSTAT population",
      description |-> "Eurostat population data over Europe.",
      source |-> "./use-cases/eurostats_population.ipynb",
      export |-> "./use-cases/eurostats_population.html",
      thumbnail_url |-> "https://apps.mundialis.de/bopen_hedp/thumbnails/demo_r_pjanaggr3-19900101-20220101.png",
      collection |-> "eurostat",
      dataset |-> "geoprocessed-eurostat-population-demo_r_pjanaggr3" ],
    [ id |-> "eurostats_population-density",
      title |-> "EUROSTAT population density",
      description |-> "Eurostat population density data over Europe.",
      source |-> "./use-cases/eurostats_population-density.ipynb",
      export |-> "./use-cases/eurostats_population-density.html",
      thumbnail_url |-> "https://apps.mundialis.de/bopen_hedp/thumbnails/demo_r_d3dens-19900101-20220101.png",
      collection |-> "eurostat",
      dataset |-> "geoprocessed-eurostat-population-density-demo_r_d3dens" ],
    [ id |-> "eurostats_gross-domestic-product",
      title |-> "EUROSTAT Gross domestic product",
      description |-> "Europe Gross domestic product (GDP).",
      source |-> "./use-cases/eurostats_gross-domestic-product.ipynb",
      export |-> "./use-cases/eurostats_gross-domestic-product.html",
      thumbnail_url |-> "https://apps.mundialis.de/bopen_hedp/thumbnails/nama_10r_3gdp-20000101-20210101.png",
      collection |-> "eurostat",
      dataset |-> "geoprocessed-eurostat-regional-economic-accounts_nama_10r_3gdp" ],
    [ id |-> "eurostats_soil-erosion",
      title |-> "EUROSTAT soil erosion",
      description |-> "Europe EUROSTAT soil erosion.",
      source |-> "./use-cases/eurostats_soil-erosion.ipynb",
      export |-> "./use-cases/eurostats_soil-erosion.html",
      thumbnail_url |-> "https://apps.mundialis.de/bopen_hedp/thumbnails/aei_pr_soiler-20000101-20160101.png",
      collection |-> "eurostat",
      dataset |-> "geoprocessed-eurostat-soil-erosion-aei_pr_soiler" ]
  >>

(***************************************************************************)
(* The valid_time axis.  A timestamp is <<year, month, day, hour>>; the     *)
(* store is hourly and reaches from before 1980 to the end of month         *)
(* storeEnd of 2023.  A date label "y-mm-dd" is <<y, mm, dd>>.              *)
(***************************************************************************)
\* MONTH_REFERENCE_TIME = [f"{y}-09-{d}" for y in YEARS for d in DAYS]
MONTH_REFERENCE_TIME ==
  [i \in 1..(Len(YEARS) * Len(DAYS)) |->
     << YEARS[((i - 1) \div Len(DAYS)) + 1], 9, DAYS[((i - 1) % Len(DAYS)) + 1] >>]

\* variant: the labels of the two following days
StormLabels_7To8 == << <<2023, 9, 7>>, <<2023, 9, 8>> >>

\* valid_time=["2023-09-06", "2023-09-07"]
StormLabels == << <<2023, 9, 6>>, <<2023, 9, 7>> >>

\* the date labels of a list passed as valid_time
Labels(name) ==
  IF name = "MONTH_REFERENCE_TIME"
  THEN { MONTH_REFERENCE_TIME[i] : i \in DOMAIN MONTH_REFERENCE_TIME }
  ELSE { StormLabels[i] : i \in DOMAIN StormLabels }

TSel(k, a, b, name) == [k |-> k, a |-> a, b |-> b, name |-> name]

\* the valid_time argument of a .sel call
TimeSel(arg) ==
  CASE arg = "2023-10" -> TSel("partial", 2023, 10, "")
    [] arg = "2023" -> TSel("partial", 2023, 0, "")
    [] arg = "slice(1981,2010)" -> TSel("slice", 1981, 2010, "")
    [] arg = "slice(1991,2020)" -> TSel("slice", 1991, 2020, "")
    [] arg = "MONTH_REFERENCE_TIME" -> TSel("list", 0, 0, "MONTH_REFERENCE_TIME")
    [] arg = "[2023-09-06,2023-09-07]" -> TSel("list", 0, 0, "StormLabels")

\* groupby("valid_time.time")[datetime.time()] : the group of 00:00
TimeOfDay(arg) == TSel("hour", 0, 0, "")

\* does timestamp t pass the selection d
\*   partial : a string "y" or "y-mm" selects the whole year or month
\*   slice   : slice("y1", "y2") selects whole years, both ends included
\*   list    : a list of labels selects exactly the timestamps the labels
\*             parse to, which is 00:00 of each date
\*   month, hour : calendar-field filters
Match(t, d) ==
  CASE d.k = "partial" -> t[1] = d.a /\ (d.b = 0 \/ t[2] = d.b)
    [] d.k = "slice" -> d.a <= t[1] /\ t[1] <= d.b
    [] d.k = "list" -> t[4] = 0 /\ <<t[1], t[2], t[3]>> \in Labels(d.name)
    [] d.k = "month" -> t[2] = d.a
    [] d.k = "hour" -> t[4] = d.a

DaysIn(m) == IF m \in {4, 6, 9, 11} THEN 30 ELSE IF m = 2 THEN 28 ELSE 31

\* timestamps examined: the years around every selection bound, the months
\* around September and October, the days around the storm and the month
\* ends, and several hours of the day
ProbeYears == {1980, 1981, 1990, 1991, 2010, 2011, 2020, 2021, 2022, 2023}
ProbeMonths == {8, 9, 10, 11, 12}
ProbeDays == {1, 5, 6, 7, 8, 30, 31}
ProbeHours == {0, 1, 12, 23}

\* the examined timestamps that are on the store's axis
StoreTimes ==
  { t \in ProbeYears \X ProbeMonths \X ProbeDays \X ProbeHours :
      /\ t[3] <= DaysIn(t[2])
      /\ t[1] = 2023 => t[2] <= storeEnd }

\* the timestamps a selection sequence keeps
TimesOf(tsel) ==
  { t \in StoreTimes : \A i \in DOMAIN tsel : Match(t, tsel[i]) }

WithTime(v, d) == [v EXCEPT !.tsel = Append(@, d)]

WithBox(v, b) == [v EXCEPT !.box = b]

(***************************************************************************)
(* Execution of one notebook, top to bottom, in a fresh kernel.            *)
(***************************************************************************)
NoError == [cell |-> "", line |-> 0, op |-> ""]

Init ==
  /\ nb \in {"land", "single"}
  /\ storeEnd \in StoreEndMonths
  /\ run = 1
  /\ status = "running"
  /\ pc = 1
  /\ env = [n \in Names |-> Unbound]
  /\ month = 0
  /\ iter = 0
  /\ label = ""
  /\ bound = << >>
  /\ firstBound = << >>
  /\ calls = << >>
  /\ plots = << >>
  /\ transfers = 0
  /\ written = {}
  /\ error = NoError
  /\ catalog = << >>

Running == status = "running" /\ pc <= Len(Program(nb))

Cur == Program(nb)[pc]

At(op) == Running /\ Cur.op = op

\* assignment to a notebook name
Bind(dst, v) ==
  /\ env' = [env EXCEPT ![dst] = v]
  /\ bound' = IF IsTemp(dst) THEN bound ELSE Append(bound, dst)

\* a completed library call and what it wrote
Logged(in) ==
  /\ calls' = Append(calls, [op |-> Cur.op, cell |-> Cur.cell, arg |-> Cur.arg,
                             in |-> in])
  /\ written' = written \cup Writes(Cur.op)

Frame == UNCHANGED <<nb, storeEnd, run, status, error, catalog, firstBound>>

\* a call that reads src, binds dst and moves to the next statement
ValueStep(op, v) ==
  /\ At(op)
  /\ Bind(Cur.dst, v)
  /\ Logged(env[Cur.src])
  /\ pc' = pc + 1
  /\ UNCHANGED <<month, iter, label, plots, transfers>>
  /\ Frame

Import ==
  /\ At("import")
  /\ Bind(Cur.dst, Module)
  /\ Logged(Unbound)
  /\ pc' = pc + 1
  /\ UNCHANGED <<month, iter, label, plots, transfers>>
  /\ Frame

OpenDataset ==
  /\ At("open_dataset")
  /\ Bind(Cur.dst, OpenDatasetVal)
  /\ Logged(Unbound)
  /\ pc' = pc + 1
  /\ UNCHANGED <<month, iter, label, plots, transfers>>
  /\ Frame

\* the last expression of a cell is displayed: the repr of a lazy array
\* shows its graph, not its data
Show ==
  /\ At("show")
  /\ pc' = pc + 1
  /\ UNCHANGED <<env, bound, calls, written, month, iter, label, plots, transfers>>
  /\ Frame

GetVar == ValueStep("getvar", GetVarVal(env[Cur.src]))

AsType == ValueStep("astype", AsTypeVal(env[Cur.src], Cur.arg))

Arith == ValueStep("arith", ArithVal(env[Cur.src], Cur.arg))

Arith2 == ValueStep("arith2", Arith2Val(env[Cur.src], env[Cur.src2]))

SetAttr == ValueStep("setattr", SetAttrVal(env[Cur.src], Cur.arg))

SelBox == ValueStep("sel_box", WithBox(SelVal(env[Cur.src], "box"), Cur.arg))

SelNearest ==
  ValueStep("sel_nearest", WithBox(SelVal(env[Cur.src], "nearest"), Cur.arg))

SelTime ==
  ValueStep("sel_time", WithTime(SelVal(env[Cur.src], "time"), TimeSel(Cur.arg)))

Coord == ValueStep("coord", CoordVal(env[Cur.src]))

\* the right-hand side of coord == ...
CompareTo == IF Cur.arg = "month" THEN month ELSE 10

Compare == ValueStep("compare", CompareVal(env[Cur.src], CompareTo))

SelMask == ValueStep("sel_mask", SelMaskVal(env[Cur.src], env[Cur.src2]))

Reduce == ValueStep("reduce", ReduceVal(env[Cur.src], Cur.arg))

GroupBy == ValueStep("groupby", GroupByVal(env[Cur.src]))

GroupSelect ==
  ValueStep("groupselect",
            WithTime(GroupSelectVal(env[Cur.src]), TimeOfDay(Cur.arg)))

GroupReduce == ValueStep("groupreduce", GroupReduceVal(env[Cur.src], Cur.arg))

Resample == ValueStep("resample", ResampleVal(env[Cur.src]))

ResampleReduce ==
  ValueStep("resamplereduce", ResampleReduceVal(env[Cur.src], Cur.arg, storeEnd))

\* .compute(): the one blocking call that moves bulk data of a lazy view
Compute ==
  /\ At("compute")
  /\ Bind(Cur.dst, ComputeVal(env[Cur.src]))
  /\ Logged(env[Cur.src])
  /\ transfers' = transfers + (IF env[Cur.src].lazy THEN 1 ELSE 0)
  /\ pc' = pc + 1
  /\ UNCHANGED <<month, iter, label, plots>>
  /\ Frame

\* python literal, list comprehension or None bound to a name
Const ==
  /\ At("const")
  /\ Bind(Cur.dst, PyObj)
  /\ label' = IF Cur.dst = "label" THEN Cur.arg ELSE label
  /\ pc' = pc + 1
  /\ UNCHANGED <<calls, written, month, iter, plots, transfers>>
  /\ Frame

\* the arguments of a plotting call, evaluated
PosVals ==
  [i \in DOMAIN Cur.pos |->
     [list |-> Cur.pos[i].list,
      vals |-> [j \in DOMAIN Cur.pos[i].names |-> env[Cur.pos[i].names[j]]]]]

KwVals == [i \in DOMAIN Cur.kwarr |-> env[Cur.kwarr[i]]]

ArgNames ==
  UNION { { Cur.pos[i].names[j] : j \in DOMAIN Cur.pos[i].names } :
          i \in DOMAIN Cur.pos }
  \cup { Cur.kwarr[i] : i \in DOMAIN Cur.kwarr }

\* drawing a lazy array loads it
DrawTransfers == Cardinality({ n \in ArgNames : env[n].lazy })

PlotCall(module) ==
  /\ At(module)
  /\ plots' = Append(plots,
       [cell |-> Cur.cell, module |-> module, fn |-> Cur.arg, pos |-> PosVals,
        kwarr |-> KwVals, kw |-> Cur.kw,
        x |-> IF Cur.arg = "scatter" THEN month ELSE 0,
        label |-> IF Cur.arg = "scatter" THEN label ELSE ""])
  /\ Logged(Unbound)
  /\ transfers' = transfers + DrawTransfers
  /\ pc' = pc + 1
  /\ UNCHANGED <<env, bound, month, iter, label>>
  /\ Frame

\* display.map / display.maps / display.compare
Display == PlotCall("display")

\* plt.figure, x.plot, plt.errorbar, plt.scatter, plt.title, ...
Plt == PlotCall("plt")

ForIdx == CHOOSE i \in DOMAIN Program(nb) : Program(nb)[i].op = "for"

EndForIdx == CHOOSE i \in DOMAIN Program(nb) : Program(nb)[i].op = "endfor"

\* range (1, 11) is evaluated once, before the first iteration
Range ==
  /\ At("range")
  /\ iter' = RangeStart
  /\ pc' = pc + 1
  /\ UNCHANGED <<env, bound, calls, written, month, label, plots, transfers>>
  /\ Frame

ForNext ==
  /\ At("for")
  /\ iter < RangeStop
  /\ month' = iter
  /\ iter' = iter + 1
  /\ Bind("month", PyObj)
  /\ pc' = pc + 1
  /\ UNCHANGED <<calls, written, label, plots, transfers>>
  /\ Frame

ForExit ==
  /\ At("for")
  /\ iter >= RangeStop
  /\ pc' = EndForIdx + 1
  /\ UNCHANGED <<env, bound, calls, written, month, iter, label, plots, transfers>>
  /\ Frame

EndFor ==
  /\ At("endfor")
  /\ pc' = ForIdx
  /\ UNCHANGED <<env, bound, calls, written, month, iter, label, plots, transfers>>
  /\ Frame

\* if month == 1:
IfCond == month = 1

IfTrue ==
  /\ At("if")
  /\ IfCond
  /\ pc' = pc + 1
  /\ UNCHANGED <<env, bound, calls, written, month, iter, label, plots, transfers>>
  /\ Frame

\* the body of the if is the one statement label = "2023"
IfFalse ==
  /\ At("if")
  /\ ~IfCond
  /\ pc' = pc + 2
  /\ UNCHANGED <<env, bound, calls, written, month, iter, label, plots, transfers>>
  /\ Frame

\* statements that call into a library and may raise
RaisingOps ==
  {"import", "open_dataset", "getvar", "astype", "arith", "arith2", "setattr",
   "sel_box", "sel_nearest", "sel_time", "coord", "compare", "sel_mask",
   "reduce", "groupby", "groupselect", "groupreduce", "resample",
   "resamplereduce", "compute", "display", "plt"}

\* variant: the statement is wrapped in try/except, the name is bound to
\* None and the run goes on
RaiseCaught ==
  /\ Running
  /\ Cur.op \in RaisingOps
  /\ Cur.dst # ""
  /\ error' = [cell |-> Cur.cell, line |-> Cur.line, op |-> Cur.op]
  /\ Bind(Cur.dst, PyObj)
  /\ pc' = pc + 1
  /\ UNCHANGED <<nb, storeEnd, run, status, month, iter, label,
                 firstBound, calls, plots, transfers, written, catalog>>

\* no cell has a try/except: the exception ends the run at the statement
Raise ==
  /\ Running
  /\ Cur.op \in RaisingOps
  /\ status' = "error"
  /\ error' = [cell |-> Cur.cell, line |-> Cur.line, op |-> Cur.op]
  /\ UNCHANGED <<nb, storeEnd, run, pc, env, month, iter, label, bound,
                 firstBound, calls, plots, transfers, written, catalog>>

\* the last cell has run
Finish ==
  /\ status = "running"
  /\ pc = Len(Program(nb)) + 1
  /\ status' = "done"
  /\ firstBound' = IF firstBound = << >> THEN bound ELSE firstBound
  /\ UNCHANGED <<nb, storeEnd, run, pc, env, month, iter, label, bound,
                 calls, plots, transfers, written, error, catalog>>

\* kernel restart and a new top-to-bottom run; the store may have grown,
\* what was written to files or stores stays
Restart ==
  /\ status \in {"done", "error"}
  /\ run < MaxRuns
  /\ run' = run + 1
  /\ storeEnd' \in StoreEndMonths
  /\ status' = "running"
  /\ pc' = 1
  /\ env' = [n \in Names |-> Unbound]
  /\ month' = 0
  /\ iter' = 0
  /\ label' = ""
  /\ bound' = << >>
  /\ calls' = << >>
  /\ plots' = << >>
  /\ transfers' = 0
  /\ error' = NoError
  /\ UNCHANGED <<nb, firstBound, written, catalog>>

\* the documentation site reads the catalog entry by entry
ReadEntry ==
  /\ Len(catalog) < Len(entries)
  /\ catalog' = Append(catalog, entries[Len(catalog) + 1])
  /\ UNCHANGED <<nb, storeEnd, run, status, pc, env, month, iter, label,
                 bound, firstBound, calls, plots, transfers, written, error>>

Next ==
  \/ Import \/ OpenDataset \/ Show \/ GetVar \/ AsType \/ Arith \/ Arith2
  \/ SetAttr \/ SelBox \/ SelNearest \/ SelTime \/ Coord \/ Compare \/ SelMask
  \/ Reduce \/ GroupBy \/ GroupSelect \/ GroupReduce \/ Resample
  \/ ResampleReduce \/ Compute \/ Const \/ Display \/ Plt
  \/ Range \/ ForNext \/ ForExit \/ EndFor \/ IfTrue \/ IfFalse
  \/ Raise \/ Finish \/ Restart \/ ReadEntry

Spec == Init /\ [][Next]_vars

(***************************************************************************)
(* Properties.                                                             *)
(***************************************************************************)
NumCalls(op) == Cardinality({ i \in DOMAIN calls : calls[i].op = op })

NumPlots(fn) == Cardinality({ i \in DOMAIN plots : plots[i].fn = fn })

IsPrefix(s, t) == Len(s) <= Len(t) /\ SubSeq(t, 1, Len(s)) = s

\* the array values among the arguments of a recorded plotting call
PlotArrays(p) ==
  { v \in UNION { { p.pos[i].vals[j] : j \in DOMAIN p.pos[i].vals } :
                  i \in DOMAIN p.pos }
          \cup { p.kwarr[i] : i \in DOMAIN p.kwarr } :
    v.kind \in {"array", "coord"} }

\* C1: until the first .compute() of a run nothing has been transferred and
\* every dataset or array bound to a name is still lazy.
C1_LazyUntilFirstCompute ==
  NumCalls("compute") = 0 =>
    /\ transfers = 0
    /\ \A n \in Names : env[n].kind \in {"dataset", "array"} => env[n].lazy

\* C1 witness: a view narrowed by box and time is bound, lazy, and the next
\* statement is the first .compute().
C1_Witness ==
  /\ At("compute")
  /\ NumCalls("compute") = 0
  /\ env[Cur.src].kind = "array"
  /\ env[Cur.src].sels = {"box", "time"}
  /\ env[Cur.src].lazy

\* C2: every .compute() is applied to an array view that at least one
\* coordinate selection has narrowed since the dataset was opened.
C2_ComputeOnNarrowedView ==
  \A i \in DOMAIN calls :
    calls[i].op = "compute" =>
      calls[i].in.kind = "array" /\ calls[i].in.sels # {}

\* C2 witness: a run has finished with computes of a box-and-time view and
\* of a nearest-point view.
C2_Witness ==
  /\ status = "done"
  /\ \E i \in DOMAIN calls :
       calls[i].op = "compute" /\ calls[i].in.sels = {"nearest"}
  /\ \E i \in DOMAIN calls :
       calls[i].op = "compute" /\ "box" \in calls[i].in.sels

ReductionOps ==
  {"reduce", "groupby", "groupselect", "groupreduce", "resample",
   "resamplereduce"}

\* C3: every reduction reads a materialized array, and the number of bulk
\* transfers equals the number of .compute() calls.
C3_ReduceAfterCompute ==
  /\ \A i \in DOMAIN calls :
       calls[i].op \in ReductionOps => ~calls[i].in.lazy
  /\ transfers = NumCalls("compute")

\* C3 witness: a finished run in which sums or means, grouped reductions or
\* selections were taken and plots were drawn.
C3_Witness ==
  /\ status = "done"
  /\ NumCalls("reduce") >= 2
  /\ NumCalls("groupby") = 2
  /\ transfers > 0
  /\ plots # << >>

\* C4 as claimed: every array handed to a plotting call carries an aggregate
\* over valid_time.
C4_EveryPlottedArrayReduced ==
  \A i \in DOMAIN plots : \A v \in PlotArrays(plots[i]) : v.aggs # {}

\* C4 amended: every array handed to display.map, display.maps and the
\* matplotlib calls carries an aggregate over valid_time; the two series
\* handed to display.compare are materialized groupby selections that carry
\* no aggregate.
C4_PlottedArraysReducedExceptCompare ==
  \A i \in DOMAIN plots :
    /\ plots[i].fn # "compare" =>
         \A v \in PlotArrays(plots[i]) : v.aggs # {}
    /\ plots[i].fn = "compare" =>
         /\ Cardinality(PlotArrays(plots[i])) > 0
         /\ \A v \in PlotArrays(plots[i]) :
              v.aggs = {} /\ "timeofday" \in v.sels /\ ~v.lazy

\* C4 witness: display.map, display.maps and display.compare have all drawn.
C4_Witness ==
  /\ NumPlots("map") = 1
  /\ NumPlots("maps") = 1
  /\ NumPlots("compare") = 1

\* C5 as claimed: no loop and no conditional, every step of a run leaves the
\* program counter in place or moves it to the next statement.
C5_StraightLine ==
  [][run' = run => pc' \in {pc, pc + 1}]_vars

\* the scatter calls recorded so far, in call order
Scatters == SelectSeq(plots, LAMBDA p : p.fn = "scatter")

\* C5 amended: outside the chart cell 6605298a every step moves to the next
\* statement; that cell loops over the constant range (1, 11) with a
\* conditional on the loop index only, so whatever the store holds a finished
\* run has called plt.scatter once for each of 1..10, in order, labelled
\* "2023" at 1 only.
C5_SameCallsWhateverTheData ==
  /\ [](status = "done" /\ nb = "single" =>
          /\ Len(Scatters) = 10
          /\ \A k \in DOMAIN Scatters :
               /\ Scatters[k].x = k
               /\ Scatters[k].label = IF k = 1 THEN "2023" ELSE "None")
  /\ [](status = "done" /\ nb = "land" => NumCalls("coord") = 0 /\ iter = 0)
  /\ [][(run' = run /\ ~(Running /\ Cur.cell = "6605298a"))
          => pc' \in {pc, pc + 1}]_vars

\* C5 witness: a finished run of the single-levels notebook on a store that
\* holds all twelve months of 2023.
C5_Witness ==
  /\ status = "done"
  /\ nb = "single"
  /\ storeEnd = 12
  /\ NumPlots("scatter") > 0

\* C6: an exception ends the run at the raising statement, names that
\* statement, binds nothing, and nothing of the run changes afterwards.
C6_FailureAborts ==
  /\ [](error # NoError => status = "error")
  /\ [][(error' # error /\ run' = run) =>
          /\ status' = "error"
          /\ error'.cell = Cur.cell /\ error'.op = Cur.op
          /\ UNCHANGED <<pc, env, bound, calls, plots, transfers>>]_vars
  /\ [][(status = "error" /\ run' = run) =>
          UNCHANGED <<status, error, pc, env, bound, calls, plots, transfers>>]_vars

\* C6 witness: a .compute() has raised after earlier statements bound names.
C6_Witness ==
  /\ status = "error"
  /\ error.op = "compute"
  /\ Len(bound) > 2
  /\ Cur.op = "compute"

\* C7: a run opens the dataset once and computes three times, never a value
\* that is already materialized and never twice in one cell.
C7_NoRetry ==
  /\ NumCalls("open_dataset") <= 1
  /\ NumCalls("compute") <= 3
  /\ status = "done" => NumCalls("open_dataset") = 1 /\ NumCalls("compute") = 3
  /\ \A i \in DOMAIN calls : calls[i].op = "compute" => calls[i].in.lazy
  /\ \A i, j \in DOMAIN calls :
       (calls[i].op = "compute" /\ calls[j].op = "compute" /\ i # j)
         => calls[i].cell # calls[j].cell

\* C7 witness: a finished run with its three computes.
C7_Witness ==
  /\ status = "done"
  /\ NumCalls("compute") = 3
  /\ NumCalls("open_dataset") = 1
  /\ transfers = 3

\* C8: nothing is written to a store or file, the committed code cells hold
\* no execution count and no output, a run starts from the empty kernel, and
\* a later run binds the names of the first finished run in the same order.
C8_NoPersistentState ==
  /\ written = {}
  /\ \A n \in {"land", "single"} : \A c \in CodeCells(n) :
       c.execution_count = "null" /\ c.outputs = 0
  /\ (status = "running" /\ pc = 1) =>
       /\ env = [n \in Names |-> Unbound]
       /\ bound = << >> /\ calls = << >> /\ plots = << >>
       /\ transfers = 0 /\ month = 0 /\ label = ""
  /\ firstBound # << >> => IsPrefix(bound, firstBound)
  /\ (status = "done" /\ firstBound # << >>) => bound = firstBound

\* C8 witness: a second run has finished, having bound the names of the
\* first finished run.
C8_Witness ==
  /\ run = 2
  /\ status = "done"
  /\ bound = firstBound
  /\ Len(bound) > 10

CatalogFields ==
  {"id", "title", "description", "source", "export", "thumbnail_url",
   "collection", "dataset"}

\* C9: every catalog entry has exactly the eight fields, none of them empty.
C9_CatalogEntryFields ==
  \A i \in DOMAIN catalog :
    /\ DOMAIN catalog[i] = CatalogFields
    /\ \A f \in DOMAIN catalog[i] : catalog[i][f] # ""

\* C9 witness: the whole catalog has been read.
C9_Witness ==
  /\ Len(catalog) = Len(entries)
  /\ Len(catalog) > 1

\* C10: every display call is map with one array, maps with one list of
\* arrays, or compare with two series, all passed positionally.
C10_DisplayInterface ==
  \A i \in DOMAIN plots :
    plots[i].module = "display" =>
      LET p == plots[i] IN
      /\ p.fn \in {"map", "maps", "compare"}
      /\ \A a \in DOMAIN p.pos : \A j \in DOMAIN p.pos[a].vals :
           p.pos[a].vals[j].kind = "array"
      /\ p.kwarr = << >>
      /\ p.fn = "map" =>
           Len(p.pos) = 1 /\ ~p.pos[1].list /\ Len(p.pos[1].vals) = 1
      /\ p.fn = "maps" =>
           Len(p.pos) = 1 /\ p.pos[1].list /\ Len(p.pos[1].vals) >= 1
      /\ p.fn = "compare" =>
           Len(p.pos) = 2 /\ ~p.pos[1].list /\ ~p.pos[2].list

\* C10 witness: the land notebook has called map, maps and compare.
C10_Witness ==
  /\ nb = "land"
  /\ status = "done"
  /\ \A fn \in {"map", "maps", "compare"} :
       \E i \in DOMAIN plots : plots[i].module = "display" /\ plots[i].fn = fn

\* C11: once the land notebook has run, the reference series handed to
\* display.compare holds the 00:00 values of every year 1991..2022 and
\* nothing else, and the 2023 series holds timestamps of 2023 only.
C11_ReferenceCovers1991To2022 ==
  (status = "done" /\ nb = "land") =>
    /\ TimesOf(env["tp_hinterland_location_daily_total_1991_2022"].tsel)
         = { t \in StoreTimes : t[4] = 0 /\ 1991 <= t[1] /\ t[1] <= 2022 }
    /\ \A t \in TimesOf(env["tp_hinterland_location_daily_total_2023"].tsel) :
         t[1] = 2023

\* C12: once the single-levels notebook has run, every calendar month for
\* which t2m_Berlin_2023_monthly_means holds a value has exactly one scatter
\* point at x = month.
C12_EveryMonthOf2023Drawn ==
  (status = "done" /\ nb = "single") =>
    \A m \in env["t2m_Berlin_2023_monthly_means"].bins :
      Cardinality({ i \in DOMAIN plots :
                      plots[i].fn = "scatter" /\ plots[i].x = m }) = 1

\* C13: once the single-levels notebook has run, the anomaly is the mean of
\* the October 2023 selection minus the mean of the reference selection, both
\* taken from the Germany box 55..47 / 5..16; the reference selection holds
\* exactly the timestamps of the Octobers of 1981..2010 and the 2023 operand
\* exactly those of October 2023.
C13_OctoberAnomaly ==
  (status = "done" /\ nb = "single") =>
    LET area == env["t2m_germany_area"]
        cur == env["t2m_germany_area_october_2023"]
        ref == env["t2m_germany_area_octobers_1981_2010"]
        curMean == env["t2m_germany_area_october_2023_monthly_mean"]
        refMean == env["t2m_germany_area_octobers_1981_2010_mean"]
        anom == env["anomaly"]
    IN  /\ area.box = "55,47,5,16"
        /\ cur.box = area.box /\ ref.box = area.box /\ anom.box = area.box
        /\ cur.shift = area.shift /\ ref.shift = area.shift
        /\ TimesOf(ref.tsel)
             = { t \in StoreTimes : t[2] = 10 /\ 1981 <= t[1] /\ t[1] <= 2010 }
        /\ TimesOf(cur.tsel)
             = { t \in StoreTimes : t[2] = 10 /\ t[1] = 2023 }
        /\ curMean.aggs = {"mean"} /\ curMean.tsel = cur.tsel
        /\ refMean.aggs = {"mean"} /\ refMean.tsel = ref.tsel
        /\ anom.aggs = {"mean"}
        /\ anom.tsel = cur.tsel /\ anom.ref = ref.tsel

\* C13 witness: the anomaly has been computed and drawn, over a reference
\* selection and an October 2023 selection that both hold timestamps.
C13_Witness ==
  /\ status = "done"
  /\ nb = "single"
  /\ env["anomaly"].kind = "array"
  /\ TimesOf(env["anomaly"].tsel) # {}
  /\ TimesOf(env["anomaly"].ref) # {}
  /\ NumPlots("map") = 2

C15_StormHoldsBothWholeDays ==
  (status = "done" /\ nb = "land") =>
    TimesOf(env["tp_greece_storm_daniel"].tsel)
      = { t \in StoreTimes : t[1] = 2023 /\ t[2] = 9 /\ t[3] \in {6, 7} }

\* C15 amended: tp_greece_storm_daniel holds exactly the two timestamps
\* 2023-09-06 00:00 and 2023-09-07 00:00 inside the Greece box 41..34 /
\* 19..28, and tp_greece_storm_daniel_sum is their sum over valid_time times
\* 1000 with units "mm".
C15_StormHoldsTwoMidnights ==
  (status = "done" /\ nb = "land") =>
    LET storm == env["tp_greece_storm_daniel"]
        total == env["tp_greece_storm_daniel_sum"]
    IN  /\ storm.box = "41,34,19,28"
        /\ TimesOf(storm.tsel) = { <<2023, 9, 6, 0>>, <<2023, 9, 7, 0>> }
        /\ total.aggs = {"sum"}
        /\ total.tsel = storm.tsel /\ total.box = storm.box
        /\ total.num = 1000 /\ total.den = 1
        /\ total.units = "mm"

\* C15 witness: the storm total has been summed from a materialized
\* two-timestamp selection and drawn.
C15_Witness ==
  /\ status = "done"
  /\ nb = "land"
  /\ ~env["tp_greece_storm_daniel"].lazy
  /\ Cardinality(TimesOf(env["tp_greece_storm_daniel"].tsel)) = 2
  /\ env["tp_greece_storm_daniel_sum"].units = "mm"
  /\ NumPlots("map") = 1

====
